---- MODULE Spec2Model ----
(***************************************************************************)
(* Model of the L2 orderbook trading simulator.                            *)
(*                                                                         *)
(*   OrderbookVisualization (src/src/components/OrderbookVisualization.tsx)*)
(*     the aggregation effect (processData, maxTotal, calculatePercentages)*)
(*     and the spread computed at render time;                             *)
(*   ParameterControls (src/unnamed/part_001)                              *)
(*     the form state and handleSubmit;                                    *)
(*   TradingSimulatorDashboard (src/src/app/page.tsx)                      *)
(*     handleSimulation and the stored simulation results, the WebSocket   *)
(*     handlers and the stored snapshot;                                   *)
(*   the API client (src/src/lib/api.ts)                                   *)
(*     simulateTrade and checkApiHealth.                                   *)
(*                                                                         *)
(* JavaScript numbers are modelled exactly: integers where the code only   *)
(* adds and subtracts, and fractions [num, den] in lowest terms where the  *)
(* code divides.  A JavaScript object is a record; a property that is      *)
(* absent is a field that is not in the record's DOMAIN; null is Null.     *)
(***************************************************************************)
EXTENDS Integers, Sequences, FiniteSets, TLC

VARIABLES
    data,              \* OrderbookVisualization prop: the raw snapshot
    maxDepth,          \* OrderbookVisualization prop
    processedData,     \* OrderbookVisualization state (useState)
    effectPc,          \* "pending": the aggregation effect has yet to run
    orderSize,         \* ParameterControls state: text of the input
    volatility,        \* ParameterControls state
    feeTier,           \* ParameterControls state
    error,             \* ParameterControls state: the message shown
    simulationResults, \* dashboard state
    isLoading,         \* dashboard state
    isApiAvailable,    \* dashboard state
    simPc,             \* position of the handleSimulation call in flight
    simParams,         \* parameters captured by that call
    isConnected,       \* dashboard state
    wsEvents,          \* events the WebSocket has dispatched, oldest first
    wsMessage,         \* the latest message event
    apiCall            \* the call of the API client in flight, if any

bookVars == <<data, maxDepth, processedData, effectPc>>
formVars == <<orderSize, volatility, feeTier, error>>
simVars  == <<simulationResults, isLoading, isApiAvailable, simPc, simParams>>
socketVars == <<isConnected, wsEvents, wsMessage>>
apiVars  == <<apiCall>>
vars     == <<data, maxDepth, processedData, effectPc,
              orderSize, volatility, feeTier, error,
              simulationResults, isLoading, isApiAvailable, simPc, simParams,
              isConnected, wsEvents, wsMessage, apiCall>>

(***************************************************************************)
(* Bounds of the model.                                                    *)
(***************************************************************************)
MaxLevels == 2     \* levels in one snapshot, both sides together
MaxPrice  == 1     \* prices are 0..MaxPrice
MaxSize   == 2     \* sizes are 0..MaxSize
DepthMax  == 2     \* maxDepth is 0..DepthMax
ClockMax  == 1     \* Date.now() is 1..ClockMax

(***************************************************************************)
(* Numbers.                                                                *)
(***************************************************************************)
Abs(n) == IF n < 0 THEN 0 - n ELSE n

Min(a, b) == IF a <= b THEN a ELSE b

Max(a, b) == IF a >= b THEN a ELSE b

RECURSIVE Gcd(_, _)
Gcd(a, b) == IF b = 0 THEN a ELSE Gcd(b, a % b)

\* The quotient n / d (d # 0) as a fraction in lowest terms, den > 0.
Frac(n, d) ==
    LET g == Gcd(Abs(n), Abs(d))
        s == IF d < 0 THEN 0 - 1 ELSE 1
    IN  [num |-> (s * n) \div g, den |-> (s * d) \div g]

Zero == [num |-> 0, den |-> 1]

Hundred == [num |-> 100, den |-> 1]

FracLeq(a, b) == a.num * b.den <= b.num * a.den

(***************************************************************************)
(* Raw snapshots.                                                          *)
(***************************************************************************)
Null == [isNull |-> TRUE]

Prices == 0..MaxPrice

Sizes == 0..MaxSize

\* A raw level: null, or an object that has a price, a size, or both.
Levels ==
    {Null} \cup [price : Prices, size : Sizes] \cup [price : Prices]
           \cup [size : Sizes]

Sides(n) == [1..n -> Levels]

Depths == 0..DepthMax

Timestamps == 0..1

Clock == 1..ClockMax

(***************************************************************************)
(* OrderbookVisualization: the aggregation effect.                         *)
(***************************************************************************)
\* entry?.price ?? 0
PriceOf(entry) == IF "price" \in DOMAIN entry THEN entry.price ELSE 0

\* entry?.size ?? 0
SizeOf(entry) == IF "size" \in DOMAIN entry THEN entry.size ELSE 0

\* safeEntry with the size default taken from the price.
safeEntrySizeFromPrice(entry) ==
    [price |-> PriceOf(entry),
     size |-> IF "size" \in DOMAIN entry THEN entry.size ELSE PriceOf(entry),
     total |-> 0, percentage |-> Zero]

safeEntry(entry) ==
    [price |-> PriceOf(entry), size |-> SizeOf(entry), total |-> 0,
     percentage |-> Zero]

\* Slice taking one entry too many.
SliceOffByOne(entries, n) == SubSeq(entries, 1, Min(n + 1, Len(entries)))

\* entries.slice(0, n), n >= 0
Slice(entries, n) == SubSeq(entries, 1, Min(n, Len(entries)))

\* processFrom that never accumulates: total is the entry's own size.
processFromNoAccumulate(entries, i, runningTotal) ==
    [j \in 1..Len(entries) |->
        [price |-> PriceOf(entries[j]), size |-> SizeOf(entries[j]),
         total |-> SizeOf(entries[j]), percentage |-> Zero]]

RECURSIVE processFrom(_, _, _)
processFrom(entries, i, runningTotal) ==
    IF i > Len(entries) THEN << >>
    ELSE LET safe == safeEntry(entries[i])
             rt   == runningTotal + safe.size
         IN  << [safe EXCEPT !.total = rt, !.percentage = Zero] >>
             \o processFrom(entries, i + 1, rt)

\* processData that walks the side from its last entry to its first.
processDataReversed(entries) ==
    processFrom([j \in 1..Len(entries) |-> entries[Len(entries) + 1 - j]], 1, 0)

processData(entries) == processFrom(entries, 1, 0)

LastTotal(processed) ==
    IF Len(processed) > 0 THEN processed[Len(processed)].total ELSE 0

\* maxTotal that looks at the bid side only.
maxTotalBidsOnly(processedBids, processedAsks) == LastTotal(processedBids)

maxTotal(processedBids, processedAsks) ==
    Max(LastTotal(processedBids), LastTotal(processedAsks))

\* Percentage left as a ratio, not scaled to 100.
PercentageNoScale(total, mt) == IF mt > 0 THEN Frac(total, mt) ELSE Zero

Percentage(total, mt) == IF mt > 0 THEN Frac(total * 100, mt) ELSE Zero

calculatePercentages(entries, mt) ==
    [i \in 1..Len(entries) |->
        [entries[i] EXCEPT !.percentage = Percentage(entries[i].total, mt)]]

\* data.timestamp || Date.now()
TimestampOr(ts, now) == IF ts # 0 THEN ts ELSE now

\* Aggregate that sums and normalizes the whole side and truncates last.
AggregateSumThenTruncate(d, depth, now) ==
    LET processedBids == processData(d.bids)
        processedAsks == processData(d.asks)
        mt == maxTotal(processedBids, processedAsks)
    IN  [bids |-> Slice(calculatePercentages(processedBids, mt), depth),
         asks |-> Slice(calculatePercentages(processedAsks, mt), depth),
         timestamp |-> TimestampOr(d.timestamp, now)]

Aggregate(d, depth, now) ==
    LET processedBids == processData(Slice(d.bids, depth))
        processedAsks == processData(Slice(d.asks, depth))
        mt == maxTotal(processedBids, processedAsks)
    IN  [bids |-> calculatePercentages(processedBids, mt),
         asks |-> calculatePercentages(processedAsks, mt),
         timestamp |-> TimestampOr(d.timestamp, now)]

(***************************************************************************)
(* OrderbookVisualization: the spread, computed at every render from the   *)
(* processedData state.                                                    *)
(***************************************************************************)
getFirstAskPrice(pd) == IF Len(pd.asks) > 0 THEN PriceOf(pd.asks[1]) ELSE 0

getFirstBidPrice(pd) == IF Len(pd.bids) > 0 THEN PriceOf(pd.bids[1]) ELSE 0

SpreadPercentage(askPrice, bidPrice) ==
    IF bidPrice # 0 THEN Frac((askPrice - bidPrice) * 100, bidPrice) ELSE Zero

\* calculateSpread with the operands of the subtraction exchanged.
calculateSpreadReversed(pd) ==
    LET askPrice == getFirstAskPrice(pd)
        bidPrice == getFirstBidPrice(pd)
    IN  [absolute |-> bidPrice - askPrice,
         percentage |-> SpreadPercentage(askPrice, bidPrice)]

calculateSpread(pd) ==
    LET askPrice == getFirstAskPrice(pd)
        bidPrice == getFirstBidPrice(pd)
    IN  [absolute |-> askPrice - bidPrice,
         percentage |-> SpreadPercentage(askPrice, bidPrice)]

\* The spread indicator of the rendered table: what is shown, "number" or
\* the placeholder "--".  The component always formats spread.absolute and
\* spread.percentage as numbers.
SpreadIndicator(pd) ==
    [absolute   |-> [shown |-> "number", value |-> calculateSpread(pd).absolute],
     percentage |-> [shown |-> "number", value |-> calculateSpread(pd).percentage]]

(***************************************************************************)
(* Text and numbers of the parameter form.  A text is a sequence of        *)
(* characters; a number is a fraction, or NaN.                             *)
(***************************************************************************)
NaN == [nan |-> TRUE]

IsNaN(x) == "nan" \in DOMAIN x

FromInt(n) == [num |-> n, den |-> 1]

FracAdd(a, b) == Frac(a.num * b.den + b.num * a.den, a.den * b.den)

FracSub(a, b) == Frac(a.num * b.den - b.num * a.den, a.den * b.den)

FracMul(a, b) == Frac(a.num * b.num, a.den * b.den)

FracDivInt(a, n) == Frac(a.num, a.den * n)

FracMin(a, b) == IF FracLeq(a, b) THEN a ELSE b

DigitChars == <<"0", "1", "2", "3", "4", "5", "6", "7", "8", "9">>

Digits == {DigitChars[i] : i \in 1..10}

DigitVal(c) == (CHOOSE i \in 1..10 : DigitChars[i] = c) - 1

\* Number of digits of s starting at position i.
RECURSIVE DigitRun(_, _)
DigitRun(s, i) ==
    IF i <= Len(s) /\ s[i] \in Digits THEN 1 + DigitRun(s, i + 1) ELSE 0

\* Value of the n digits of s starting at position i.
RECURSIVE DigitsValue(_, _, _)
DigitsValue(s, i, n) ==
    IF n = 0 THEN 0
    ELSE DigitsValue(s, i, n - 1) * 10 + DigitVal(s[i + n - 1])

RECURSIVE Pow10(_)
Pow10(n) == IF n = 0 THEN 1 ELSE 10 * Pow10(n - 1)

\* JavaScript parseFloat on a text without white space or exponent: an
\* optional sign, digits, an optional fraction; what follows the longest
\* such prefix is ignored; NaN when the prefix has no digit.
parseFloat(s) ==
    LET signLen == IF Len(s) >= 1 /\ s[1] \in {"-", "+"} THEN 1 ELSE 0
        sign    == IF signLen = 1 /\ s[1] = "-" THEN 0 - 1 ELSE 1
        intLen  == DigitRun(s, signLen + 1)
        dot     == signLen + intLen + 1
        fracLen == IF dot <= Len(s) /\ s[dot] = "."
                     THEN DigitRun(s, dot + 1) ELSE 0
        intVal  == DigitsValue(s, signLen + 1, intLen)
        fracVal == DigitsValue(s, dot + 1, fracLen)
    IN  IF intLen = 0 /\ fracLen = 0 THEN NaN
        ELSE Frac(sign * (intVal * Pow10(fracLen) + fracVal), Pow10(fracLen))

\* The setters take values of their declared types (string, number); the
\* samples include the values the checks of handleSubmit exist for.
\* Texts given to the order size input (the state starts at "1").
OrderSizeInputs == { << >>, <<"-", "1">>, <<"0">>, <<".", "5">> }

\* Values given to the volatility state (the state starts at 50).
VolatilityInputs == {0 - 1, 0, 100, 101}

\* Values given to the fee tier state (the state starts at "standard").
FeeTierInputs == {"", "unknown"}

\* Math.random() is i / RandomSteps, i in 0..RandomSteps-1
RandomSteps == 1

RandomSamples == {Frac(i, RandomSteps) : i \in 0..(RandomSteps - 1)}

\* performance.now() - startTime is 0..ElapsedMax
ElapsedMax == 1

ElapsedSamples == 0..ElapsedMax

(***************************************************************************)
(* ParameterControls: handleSubmit's validation.                           *)
(***************************************************************************)
MsgOrderSize == "Order size must be a positive number"

MsgVolatility == "Volatility must be between 0 and 100"

MsgFeeTier == "Please select a fee tier"

\* Validation that accepts an order size of 0.
ValidationErrorZeroAccepted(text, vol, tier) ==
    LET parsedOrderSize == parseFloat(text)
    IN  IF IsNaN(parsedOrderSize) \/ parsedOrderSize.num < 0
          THEN MsgOrderSize
        ELSE IF vol < 0 \/ vol > 100 THEN MsgVolatility
        ELSE IF tier = "" THEN MsgFeeTier
        ELSE ""

\* The message handleSubmit leaves in error: "" when all checks pass.
ValidationError(text, vol, tier) ==
    LET parsedOrderSize == parseFloat(text)
    IN  IF IsNaN(parsedOrderSize) \/ parsedOrderSize.num <= 0
          THEN MsgOrderSize
        ELSE IF vol < 0 \/ vol > 100 THEN MsgVolatility
        ELSE IF tier = "" THEN MsgFeeTier
        ELSE ""

\* The object handed to onSubmit.
SubmittedParameters(text, vol, tier) ==
    [orderSize |-> parseFloat(text), volatility |-> vol, feeTier |-> tier]

(***************************************************************************)
(* TradingSimulatorDashboard: handleSimulation.                            *)
(***************************************************************************)
\* feeRate that ignores the tier: the default rate for everyone.
feeRateDefaultOnly(tier) == Frac(1, 1000)

feeRate(tier) ==
    IF tier = "vip" THEN Frac(2, 10000)
    ELSE IF tier = "standard" THEN Frac(5, 10000)
    ELSE IF tier = "basic" THEN Frac(1, 1000)
    ELSE Frac(1, 1000)

\* slippage divided by 1000 instead of 10000.
slippagePerThousand(parameters) ==
    FracDivInt(FracMul(parameters.orderSize, FromInt(parameters.volatility)),
               1000)

slippage(parameters) ==
    FracDivInt(FracMul(parameters.orderSize, FromInt(parameters.volatility)),
               10000)

fees(parameters) == FracMul(parameters.orderSize, feeRate(parameters.feeTier))

\* marketImpact with the divisor of the slippage.
marketImpactSameDivisor(parameters) ==
    FracDivInt(FracMul(parameters.orderSize, FromInt(parameters.volatility)),
               10000)

marketImpact(parameters) ==
    FracDivInt(FracMul(parameters.orderSize, FromInt(parameters.volatility)),
               5000)

\* takerProportion without the cap of 0.9.
takerProportionUncapped(parameters) == Frac(parameters.volatility, 100)

takerProportion(parameters) ==
    FracMin(Frac(9, 10), Frac(parameters.volatility, 100))

\* makerProportion as the complement to the cap instead of to 1.
makerProportionOfCap(taker) == FracSub(Frac(9, 10), taker)

makerProportion(taker) == FracSub(FromInt(1), taker)

processingTime(random1) == FracAdd(FracMul(random1, FromInt(10)), FromInt(5))

uiUpdateTime(random2) == FracAdd(FracMul(random2, FromInt(5)), FromInt(3))

\* The results object with the elapsed time added to the slippage.
ComputeResultsTimed(parameters, random1, random2, totalTime) ==
    [slippage |-> FracAdd(slippage(parameters), FromInt(totalTime)),
     fees |-> fees(parameters),
     marketImpact |-> marketImpact(parameters),
     makerTakerProportion |->
         [maker |-> makerProportion(takerProportion(parameters)),
          taker |-> takerProportion(parameters)],
     performanceMetrics |->
         [processingLatency |-> processingTime(random1),
          uiUpdateLatency |-> uiUpdateTime(random2),
          endToEndLatency |-> FromInt(totalTime)]]

ComputeResults(parameters, random1, random2, totalTime) ==
    [slippage |-> slippage(parameters),
     fees |-> fees(parameters),
     marketImpact |-> marketImpact(parameters),
     makerTakerProportion |->
         [maker |-> makerProportion(takerProportion(parameters)),
          taker |-> takerProportion(parameters)],
     performanceMetrics |->
         [processingLatency |-> processingTime(random1),
          uiUpdateLatency |-> uiUpdateTime(random2),
          endToEndLatency |-> FromInt(totalTime)]]

\* The values stored by the catch block.
FallbackResults ==
    [slippage |-> Frac(5, 100),
     fees |-> Frac(15, 10000),
     marketImpact |-> Frac(12, 100),
     makerTakerProportion |-> [maker |-> Frac(65, 100), taker |-> Frac(35, 100)],
     performanceMetrics |->
         [processingLatency |-> FromInt(15),
          uiUpdateLatency |-> FromInt(8),
          endToEndLatency |-> FromInt(120)]]

\* Reading a property of null or undefined parameters throws; nothing else
\* in the try block does.
ComputationThrows(parameters) == parameters = Null

\* A run whose try block always ends in the catch block.
SimulationOutcomeFallback(parameters, random1, random2, totalTime) ==
    FallbackResults

\* try { ... setSimulationResults(results) } catch { setSimulationResults(fallback) }
SimulationOutcome(parameters, random1, random2, totalTime) ==
    IF ComputationThrows(parameters) THEN FallbackResults
    ELSE ComputeResults(parameters, random1, random2, totalTime)

InitialResults ==
    [slippage |-> Zero,
     fees |-> Zero,
     marketImpact |-> Zero,
     makerTakerProportion |-> [maker |-> Zero, taker |-> Zero],
     performanceMetrics |->
         [processingLatency |-> Zero,
          uiUpdateLatency |-> Zero,
          endToEndLatency |-> Zero]]

NoParameters == [none |-> TRUE]

\* useState initial values of ParameterControls
FormMounted ==
    /\ orderSize = <<"1">>
    /\ volatility = 50
    /\ feeTier = "standard"
    /\ error = ""

\* No message event dispatched yet.
NoMessage == [none |-> TRUE]

\* useState initial values of TradingSimulatorDashboard, and its socket
\* just created
DashboardMounted ==
    /\ simulationResults = InitialResults
    /\ isLoading = FALSE
    /\ isApiAvailable = FALSE
    /\ simPc = "idle"
    /\ simParams = NoParameters
    /\ isConnected = FALSE
    /\ wsEvents = << >>
    /\ wsMessage = NoMessage

\* The API client before any call.
NoCall == [fn |-> "none", pc |-> "idle"]

ApiLoaded == apiCall = NoCall

(***************************************************************************)
(* The component mounted with props (data, maxDepth).                      *)
(***************************************************************************)
Init ==
    /\ \E nb \in 0..MaxLevels :
         \E na \in 0..(MaxLevels - nb) :
           \E b \in Sides(nb), a \in Sides(na), ts \in Timestamps :
             data = [bids |-> b, asks |-> a, timestamp |-> ts]
    /\ maxDepth \in Depths
    \* useState initial value: the raw sides, not yet aggregated
    /\ \E now \in Clock :
         processedData = [bids |-> data.bids, asks |-> data.asks,
                          timestamp |-> TimestampOr(data.timestamp, now)]
    /\ effectPc = "pending"
    /\ FormMounted
    /\ DashboardMounted
    /\ ApiLoaded

\* ProcessEffect that stores an empty book while a simulation is loading.
ProcessEffectSharedLoading ==
    /\ effectPc = "pending"
    /\ \E now \in Clock :
         processedData' =
             IF isLoading
               THEN [bids |-> << >>, asks |-> << >>,
                     timestamp |-> TimestampOr(data.timestamp, now)]
               ELSE Aggregate(data, maxDepth, now)
    /\ effectPc' = "done"
    /\ UNCHANGED <<data, maxDepth, formVars, simVars, socketVars, apiVars>>

\* useEffect(() => { ... setProcessedData(...) }, [data, maxDepth])
ProcessEffect ==
    /\ effectPc = "pending"
    /\ \E now \in Clock : processedData' = Aggregate(data, maxDepth, now)
    /\ effectPc' = "done"
    /\ UNCHANGED <<data, maxDepth, formVars, simVars, socketVars, apiVars>>

Next == ProcessEffect

Spec == Init /\ [][Next]_vars

(***************************************************************************)
(* The parameter form and the simulation it starts.  The orderbook panel   *)
(* is held at its mount state.                                             *)
(***************************************************************************)
DefaultMaxDepth == 10

InitForm ==
    /\ data = [bids |-> << >>, asks |-> << >>, timestamp |-> 0]
    /\ maxDepth = DefaultMaxDepth
    /\ processedData = [bids |-> << >>, asks |-> << >>, timestamp |-> 1]
    /\ effectPc = "pending"
    /\ FormMounted
    /\ DashboardMounted
    /\ ApiLoaded

\* onChange={(e) => setOrderSize(e.target.value)}
SetOrderSize ==
    /\ \E text \in OrderSizeInputs : orderSize' = text
    /\ UNCHANGED <<volatility, feeTier, error, bookVars, simVars,
                   socketVars, apiVars>>

\* onValueChange={(values) => setVolatility(values[0])}
SetVolatility ==
    /\ \E v \in VolatilityInputs : volatility' = v
    /\ UNCHANGED <<orderSize, feeTier, error, bookVars, simVars,
                   socketVars, apiVars>>

\* onValueChange={setFeeTier}
SetFeeTier ==
    /\ \E t \in FeeTierInputs : feeTier' = t
    /\ UNCHANGED <<orderSize, volatility, error, bookVars, simVars,
                   socketVars, apiVars>>

\* handleSubmit; when the checks pass it calls onSubmit = handleSimulation,
\* which runs up to its await of the health check.  The submit button is
\* disabled while isLoading.
HandleSubmit ==
    /\ ~isLoading
    /\ error' = ValidationError(orderSize, volatility, feeTier)
    /\ IF error' = ""
         THEN /\ isLoading' = TRUE
              /\ simPc' = "health"
              /\ simParams' = SubmittedParameters(orderSize, volatility, feeTier)
              /\ UNCHANGED <<simulationResults, isApiAvailable>>
         ELSE UNCHANGED simVars
    /\ UNCHANGED <<orderSize, volatility, feeTier, bookVars,
                   socketVars, apiVars>>

\* HealthCheckSettled without the finally block: a run whose computation
\* throws leaves the loading flag set.
HealthCheckSettledNoFinally ==
    /\ simPc = "health"
    /\ \E random1 \in RandomSamples, random2 \in RandomSamples,
          totalTime \in ElapsedSamples :
         simulationResults' =
             SimulationOutcome(simParams, random1, random2, totalTime)
    /\ \E outcome \in {"ok", "not ok", "failed"} :
         isApiAvailable' = (outcome = "ok")
    /\ isLoading' = ComputationThrows(simParams)
    /\ simPc' = "idle"
    /\ simParams' = NoParameters
    /\ UNCHANGED <<formVars, bookVars, socketVars, apiVars>>

\* handleSimulation resumed after the health check: the response is ok or
\* not ok, or the fetch threw or timed out.
HealthCheckSettled ==
    /\ simPc = "health"
    /\ \E random1 \in RandomSamples, random2 \in RandomSamples,
          totalTime \in ElapsedSamples :
         simulationResults' =
             SimulationOutcome(simParams, random1, random2, totalTime)
    /\ \E outcome \in {"ok", "not ok", "failed"} :
         isApiAvailable' = (outcome = "ok")
    /\ isLoading' = FALSE
    /\ simPc' = "idle"
    /\ simParams' = NoParameters
    /\ UNCHANGED <<formVars, bookVars, socketVars, apiVars>>

NextForm ==
    \/ SetOrderSize
    \/ SetVolatility
    \/ SetFeeTier
    \/ HandleSubmit
    \/ HealthCheckSettled

SpecForm == InitForm /\ [][NextForm]_vars

(***************************************************************************)
(* The dashboard with a filled-in form: the orderbook panel aggregates a   *)
(* snapshot while the form's parameters are submitted and simulated.       *)
(***************************************************************************)
\* Texts of the order size input that parse to a positive number.
CostOrderSizes == { <<"1">>, <<".", "5">> }

\* Positions of the volatility slider (min 0, max 100, step 1).
CostVolatilities == {0, 25, 50, 95, 100}

\* The items of the fee tier select.
FeeTiers == {"vip", "standard", "basic"}

\* Snapshots the feed delivers: what a parsed message leaves in
\* orderbookData, to be handed to the panel as data.
FeedSnapshots ==
    { [bids |-> << [price |-> 1, size |-> 1], [price |-> 2, size |-> 1] >>,
       asks |-> << [price |-> 3, size |-> 1] >>,
       timestamp |-> 1],
      [bids |-> << >>,
       asks |-> << [price |-> 3, size |-> 2] >>,
       timestamp |-> 2] }

InitCost ==
    \* useState initial value of orderbookData
    /\ data = [bids |-> << >>, asks |-> << >>, timestamp |-> 0]
    /\ maxDepth = DefaultMaxDepth
    /\ \E now \in Clock :
         processedData = [bids |-> data.bids, asks |-> data.asks,
                          timestamp |-> TimestampOr(data.timestamp, now)]
    /\ effectPc = "pending"
    /\ orderSize \in CostOrderSizes
    /\ volatility \in CostVolatilities
    /\ feeTier \in FeeTiers
    /\ error = ""
    /\ DashboardMounted
    /\ ApiLoaded

\* ws.onmessage with a message that parses: setOrderbookData stores a new
\* object, the dashboard renders and the panel's effect is due for the new
\* data prop.
SnapshotReceived ==
    /\ \E snapshot \in FeedSnapshots : data' = snapshot
    /\ effectPc' = "pending"
    /\ UNCHANGED <<maxDepth, processedData, formVars, simVars,
                   socketVars, apiVars>>

NextCost ==
    \/ SnapshotReceived
    \/ ProcessEffect
    \/ HandleSubmit
    \/ HealthCheckSettled

SpecCost == InitCost /\ [][NextCost]_vars

\* The step in which handleSimulation resumes after its await and stores
\* its results.
Settles == simPc = "health" /\ simPc' = "idle"

\* The health check is a fetch with AbortSignal.timeout(1000): its promise
\* settles, and the event loop resumes handleSimulation.  The steps of
\* NextCost that take simPc from "health" to "idle" are the
\* HealthCheckSettled steps, and HealthCheckSettled is enabled exactly when
\* simPc = "health", so this is weak fairness of HealthCheckSettled.
SpecCostFair == SpecCost /\ WF_simPc(Settles)

(***************************************************************************)
(* Properties of the aggregation.                                          *)
(***************************************************************************)
Done == effectPc = "done"

\* The raw window of a side: its first maxDepth levels, as received.
Window(side) == [i \in 1..Min(maxDepth, Len(side)) |-> side[i]]

\* The size a raw level contributes: its size, 0 when absent.
RawSize(lvl) == IF "size" \in DOMAIN lvl THEN lvl.size ELSE 0

RawPrice(lvl) == IF "price" \in DOMAIN lvl THEN lvl.price ELSE 0

\* Sum of the sizes of the first i levels of w.
RECURSIVE SumFirst(_, _)
SumFirst(w, i) == IF i = 0 THEN 0 ELSE SumFirst(w, i - 1) + RawSize(w[i])

NonNegative(w) == \A i \in 1..Len(w) : RawSize(w[i]) >= 0

\* The larger of the two windows' sums, and 0.
WindowMax ==
    Max(Max(SumFirst(Window(data.bids), Len(Window(data.bids))),
            SumFirst(Window(data.asks), Len(Window(data.asks)))), 0)

\* p is the fraction 100 * total / m  (m > 0).
IsPercentOf(p, total, m) == p.den > 0 /\ p.num * m = 100 * total * p.den

TruncatedThenSummed(out, side) ==
    /\ Len(out) <= maxDepth
    /\ Len(out) = Len(Window(side))
    /\ \A i \in 1..Len(out) :
         /\ out[i].total = SumFirst(Window(side), i)
         /\ IF WindowMax > 0
              THEN IsPercentOf(out[i].percentage, SumFirst(Window(side), i),
                               WindowMax)
              ELSE out[i].percentage = Zero

\* C1: with maxDepth = k the aggregation returns at most k entries per side,
\* and every total and percentage is the one computed from the input
\* truncated to k first: levels beyond position k contribute to nothing.
C1_TruncateThenSum ==
    Done => /\ TruncatedThenSummed(processedData.bids, data.bids)
            /\ TruncatedThenSummed(processedData.asks, data.asks)

\* A side longer than maxDepth whose cut-off levels have a positive size.
C1_Witness ==
    /\ Done
    /\ maxDepth >= 1
    /\ Len(data.bids) > maxDepth
    /\ RawSize(data.bids[maxDepth + 1]) > 0
    /\ Len(processedData.bids) = maxDepth
    /\ processedData.bids[maxDepth].total > 0

RunningSum(out, side) ==
    NonNegative(Window(side)) =>
        /\ \A i \in 1..Len(out) :
             LET prev == IF i = 1 THEN 0 ELSE out[i - 1].total
             IN  /\ out[i].total = prev + RawSize(side[i])
                 /\ out[i].total >= prev
        /\ Len(out) > 0 =>
             out[Len(out)].total = SumFirst(Window(side), Len(Window(side)))

\* C2: on a side whose sizes are all non-negative the totals are a running
\* sum starting from 0, they never decrease along the side, and the last
\* total is the sum of all sizes of the truncated side.
C2_CumulativeMonotone ==
    Done => /\ RunningSum(processedData.bids, data.bids)
            /\ RunningSum(processedData.asks, data.asks)

C2_Witness ==
    /\ Done
    /\ NonNegative(Window(data.asks))
    /\ Len(processedData.asks) >= 2
    /\ processedData.asks[1].total = 1
    /\ processedData.asks[2].total = 2

\* The last cumulative total of an aggregated side, 0 for an empty side.
LastCumulative(out) == IF Len(out) = 0 THEN 0 ELSE out[Len(out)].total

MaxCumulative ==
    Max(Max(LastCumulative(processedData.bids),
            LastCumulative(processedData.asks)), 0)

AllEntries ==
    {processedData.bids[i] : i \in 1..Len(processedData.bids)}
        \cup {processedData.asks[i] : i \in 1..Len(processedData.asks)}

\* C3: every entry of both sides has percentage 100 * total / maxCumulative
\* for the one constant maxCumulative = max(last total of bids, last total
\* of asks, 0), an empty side counting 0; when maxCumulative is 0 every
\* percentage is 0.
C3_SharedNormalization ==
    Done => \A e \in AllEntries :
              IF MaxCumulative > 0
                THEN IsPercentOf(e.percentage, e.total, MaxCumulative)
                ELSE e.percentage = Zero

\* Both sides non-empty, the ask side the deeper one: the bid entry is at
\* 50% of the shared constant.
C3_Witness ==
    /\ Done
    /\ Len(processedData.bids) = 1
    /\ Len(processedData.asks) = 1
    /\ LastCumulative(processedData.bids) = 1
    /\ LastCumulative(processedData.asks) = 2
    /\ processedData.bids[1].percentage = [num |-> 50, den |-> 1]
    /\ processedData.asks[1].percentage = Hundred

InPercentRange(p) == FracLeq(Zero, p) /\ FracLeq(p, Hundred)

\* The largest cumulative total among all entries of both sides.
IsLargest(e) == \A f \in AllEntries : f.total <= e.total

WindowsNonNegative ==
    NonNegative(Window(data.bids)) /\ NonNegative(Window(data.asks))

\* C4 as stated: on non-empty truncated sides (sizes non-negative, as the
\* data model has them) every percentage lies in [0,100] and the entry with
\* the largest cumulative total has percentage exactly 100.
C4_Original ==
    (Done /\ WindowsNonNegative) =>
        \A e \in AllEntries :
            /\ InPercentRange(e.percentage)
            /\ IsLargest(e) => e.percentage = Hundred

\* C4 amended: on truncated sides with non-negative sizes every percentage
\* lies in [0,100]; the entry with the largest cumulative total has
\* percentage exactly 100 provided that total is positive.
C4_PercentRange ==
    (Done /\ WindowsNonNegative) =>
        \A e \in AllEntries :
            /\ InPercentRange(e.percentage)
            /\ (IsLargest(e) /\ e.total > 0) => e.percentage = Hundred

C4_Witness ==
    /\ Done
    /\ WindowsNonNegative
    /\ Len(processedData.bids) = 2
    /\ processedData.bids[1].total = 1
    /\ processedData.bids[1].percentage = [num |-> 50, den |-> 1]
    /\ processedData.bids[2].total = 2
    /\ processedData.bids[2].percentage = Hundred

\* C5: when the bid side or the ask side of the aggregated book is empty the
\* spread is shown as unavailable, never as a number computed with a price
\* of 0 standing in for the missing best bid or best ask.
C5_SpreadUnavailable ==
    (Done /\ (Len(processedData.bids) = 0 \/ Len(processedData.asks) = 0)) =>
        /\ SpreadIndicator(processedData).absolute.shown = "--"
        /\ SpreadIndicator(processedData).percentage.shown = "--"

\* C6: with both sides non-empty, spread.absolute is the first ask's price
\* minus the first bid's price of the truncated book, and spread.percentage
\* is 100 * absolute / bid price, or 0 when the bid price is 0.
C6_SpreadValue ==
    (Done /\ Len(processedData.bids) > 0 /\ Len(processedData.asks) > 0) =>
        LET ask == RawPrice(Window(data.asks)[1])
            bid == RawPrice(Window(data.bids)[1])
            s   == calculateSpread(processedData)
        IN  /\ processedData.asks[1].price = ask
            /\ processedData.bids[1].price = bid
            /\ s.absolute = ask - bid
            /\ IF bid # 0
                 THEN s.percentage.den > 0 /\
                      s.percentage.num * bid = 100 * (ask - bid) * s.percentage.den
                 ELSE s.percentage = Zero

C6_Witness ==
    /\ Done
    /\ Len(processedData.bids) > 0
    /\ Len(processedData.asks) > 0
    /\ processedData.bids[1].price = 1
    /\ processedData.asks[1].price = 0
    /\ calculateSpread(processedData).absolute = 0 - 1
    /\ calculateSpread(processedData).percentage = [num |-> 0 - 100, den |-> 1]

Incomplete(lvl) == lvl = Null \/ "price" \notin DOMAIN lvl \/ "size" \notin DOMAIN lvl

DefaultsToZero(out, side) ==
    /\ Len(out) = Len(Window(side))
    /\ \A i \in 1..Len(out) :
         LET lvl  == side[i]
             prev == IF i = 1 THEN 0 ELSE out[i - 1].total
         IN  /\ out[i].price = (IF "price" \in DOMAIN lvl THEN lvl.price ELSE 0)
             /\ out[i].size = (IF "size" \in DOMAIN lvl THEN lvl.size ELSE 0)
             /\ "size" \notin DOMAIN lvl => out[i].total = prev

\* C7: a raw level that is null or lacks its price or size is aggregated as
\* if the missing field were 0: the level keeps its position in the output
\* and a missing size adds 0 to the running total.
C7_MissingFieldsDefault ==
    Done => /\ DefaultsToZero(processedData.bids, data.bids)
            /\ DefaultsToZero(processedData.asks, data.asks)

\* A level without price followed by a null level, both inside the window.
C7_Witness ==
    /\ Done
    /\ Len(processedData.bids) = 2
    /\ data.bids[1] = [size |-> 1]
    /\ data.bids[2] = Null
    /\ processedData.bids[1].price = 0
    /\ processedData.bids[1].total = 1
    /\ processedData.bids[2].size = 0
    /\ processedData.bids[2].total = 1

(***************************************************************************)
(* Properties of the parameter form.                                       *)
(***************************************************************************)
RecognizedTiers == {"vip", "standard", "basic"}

\* handleSubmit has just invoked onSubmit: a handleSimulation call begins.
SimulationStarts == simPc = "idle" /\ simPc' = "health"

BadOrderSize ==
    LET parsed == parseFloat(orderSize)
    IN  IsNaN(parsed) \/ parsed.num <= 0

BadVolatility == volatility < 0 \/ volatility > 100

BadFeeTier == feeTier \notin RecognizedTiers

\* C8: a simulation request whose feeTier is not vip, standard or basic is
\* rejected before any fee is computed: no handleSimulation call is ever in
\* flight with an unrecognized tier.
C8_UnknownTierRejected ==
    simPc = "health" => simParams.feeTier \in RecognizedTiers

\* C9: with an order size that is not a number or is <= 0, or a volatility
\* outside [0,100], no step invokes onSubmit, and the submit that reports
\* the failure leaves the stored results and the simulation state as they
\* were.
C9_RejectedAtBoundary ==
    [][(BadOrderSize \/ BadVolatility) =>
          /\ ~SimulationStarts
          /\ error' # error =>
               /\ error' # ""
               /\ UNCHANGED simVars]_vars

\* A volatility of 101 rejected after a simulation has stored its results.
C9_Witness ==
    /\ volatility = 101
    /\ ~BadOrderSize
    /\ error = MsgVolatility
    /\ simPc = "idle"
    /\ simulationResults # InitialResults

\* The message the form owes for its current fields: the first failing
\* field's own message, none when every field is valid.
OwedMessage ==
    IF BadOrderSize THEN MsgOrderSize
    ELSE IF BadVolatility THEN MsgVolatility
    ELSE IF BadFeeTier THEN MsgFeeTier
    ELSE ""

\* C10: every kind of validation failure (bad order size, bad volatility,
\* bad fee tier) surfaces its own message, the three messages are distinct,
\* and a submit that passes validation leaves the message empty whatever it
\* was before.
C10_DistinctMessages ==
    [][(error' # error \/ SimulationStarts) =>
          /\ error' = OwedMessage
          /\ SimulationStarts <=> OwedMessage = ""
          /\ Cardinality({MsgOrderSize, MsgVolatility, MsgFeeTier, ""}) = 4]_vars

(***************************************************************************)
(* Properties of the cost model.                                           *)
(***************************************************************************)
One == FromInt(1)

\* x is the fraction a * n / d  (d > 0).
IsScaled(x, a, n, d) == x.den > 0 /\ x.num * a.den * d = a.num * n * x.den

\* C11: for every valid parameter set the fees stored by a run are the
\* order size times the rate of the selected tier: 0.0002 for vip, 0.0005
\* for standard, 0.001 for basic.
C11_FeesByTier ==
    [][Settles =>
          LET p == simParams
              f == simulationResults'.fees
          IN  /\ p.feeTier = "vip" => IsScaled(f, p.orderSize, 2, 10000)
              /\ p.feeTier = "standard" => IsScaled(f, p.orderSize, 5, 10000)
              /\ p.feeTier = "basic" => IsScaled(f, p.orderSize, 1, 1000)]_vars

\* Half a unit at the vip rate: fees 0.0001.
C11_Witness ==
    /\ simPc = "idle"
    /\ orderSize = <<".", "5">>
    /\ feeTier = "vip"
    /\ simulationResults.fees = [num |-> 1, den |-> 10000]

\* Factors by which an input of the cost model is scaled.
ScaleFactors == {0, 2, 3}

\* C12: for every valid parameter set the slippage stored by a run is
\* orderSize * volatility / 10000; scaling the order size or the volatility
\* by a factor scales the slippage by that factor, and the slippage is 0
\* when the volatility is 0.
C12_SlippageLinear ==
    [][Settles =>
          LET p == simParams
              s == simulationResults'.slippage
          IN  /\ s.den > 0
              /\ s.num * p.orderSize.den * 10000
                     = p.orderSize.num * p.volatility * s.den
              /\ p.volatility = 0 => s = Zero
              /\ \A k \in ScaleFactors :
                   /\ slippage([p EXCEPT !.orderSize = FracMul(FromInt(k), @)])
                          = FracMul(FromInt(k), s)
                   /\ slippage([p EXCEPT !.volatility = k * @])
                          = FracMul(FromInt(k), s)]_vars

\* Half a unit at volatility 25: slippage 0.00125.
C12_Witness ==
    /\ simPc = "idle"
    /\ orderSize = <<".", "5">>
    /\ volatility = 25
    /\ simulationResults.slippage = [num |-> 1, den |-> 800]

\* C13: for every valid parameter set the market impact stored by a run is
\* orderSize * volatility / 5000, which is exactly twice the slippage stored
\* by the same run.
C13_ImpactDoubleSlippage ==
    [][Settles =>
          LET p == simParams
              m == simulationResults'.marketImpact
              s == simulationResults'.slippage
          IN  /\ m.den > 0
              /\ m.num * p.orderSize.den * 5000
                     = p.orderSize.num * p.volatility * m.den
              /\ s.den > 0
              /\ m.num * s.den = 2 * s.num * m.den]_vars

\* Half a unit at volatility 95: slippage 0.00475, market impact 0.0095.
C13_Witness ==
    /\ simPc = "idle"
    /\ orderSize = <<".", "5">>
    /\ volatility = 95
    /\ simulationResults.slippage = [num |-> 19, den |-> 4000]
    /\ simulationResults.marketImpact = [num |-> 19, den |-> 2000]

InUnitInterval(x) == FracLeq(Zero, x) /\ FracLeq(x, One)

\* C14: for every volatility in [0,100] a run stores taker =
\* min(0.9, volatility / 100) and maker = 1 - taker: both lie in [0,1] and
\* maker + taker is exactly 1 in every estimate a run produces.
C14_MakerTakerSplit ==
    [][Settles =>
          LET v == simParams.volatility
              t == simulationResults'.makerTakerProportion.taker
              m == simulationResults'.makerTakerProportion.maker
          IN  /\ t.den > 0
              /\ m.den > 0
              /\ IF v <= 90 THEN t.num * 100 = v * t.den
                            ELSE t.num * 10 = 9 * t.den
              /\ m.num * t.den + t.num * m.den = m.den * t.den
              /\ InUnitInterval(t)
              /\ InUnitInterval(m)]_vars

\* Volatility 25: taker 0.25, maker 0.75.
C14_Witness ==
    /\ simPc = "idle"
    /\ volatility = 25
    /\ simulationResults.makerTakerProportion =
           [maker |-> [num |-> 3, den |-> 4], taker |-> [num |-> 1, den |-> 4]]

\* The taker share handleSimulation computes at volatility v, the other
\* parameters being those of p.
TakerAt(p, v) == takerProportion([p EXCEPT !.volatility = v])

\* C15: the taker share stored by a run is no smaller than the share at any
\* lower volatility and no larger than the share at any higher one, it is
\* at most 0.9 and the maker share at least 0.1; volatility 0 gives taker 0
\* and maker 1, volatility 100 gives taker 0.9 and maker 0.1.
C15_TakerMonotoneCapped ==
    [][Settles =>
          LET p == simParams
              t == simulationResults'.makerTakerProportion.taker
              m == simulationResults'.makerTakerProportion.maker
          IN  /\ \A v \in CostVolatilities :
                   /\ v <= p.volatility => FracLeq(TakerAt(p, v), t)
                   /\ v >= p.volatility => FracLeq(t, TakerAt(p, v))
              /\ FracLeq(t, [num |-> 9, den |-> 10])
              /\ FracLeq([num |-> 1, den |-> 10], m)
              /\ p.volatility = 0 => (t = Zero /\ m = One)
              /\ p.volatility = 100 =>
                   /\ t = [num |-> 9, den |-> 10]
                   /\ m = [num |-> 1, den |-> 10]]_vars

\* Volatility 95, above the cap: taker 0.9, maker 0.1.
C15_Witness ==
    /\ simPc = "idle"
    /\ volatility = 95
    /\ simulationResults.makerTakerProportion.taker = [num |-> 9, den |-> 10]
    /\ simulationResults.makerTakerProportion.maker = [num |-> 1, den |-> 10]

\* C16: every estimate a run stores carries a netCost field equal to the
\* sum of the slippage, the fees and the market impact of that estimate.
C16_NetCostCarried ==
    [][Settles =>
          LET r == simulationResults'
          IN  /\ "netCost" \in DOMAIN r
              /\ r.netCost = FracAdd(FracAdd(r.slippage, r.fees), r.marketImpact)]_vars

\* The parameters handleSubmit builds from the form as it stands.
FormParameters == SubmittedParameters(orderSize, volatility, feeTier)

\* The cost fields of an estimate: the estimate with its latency
\* measurements blanked.
CostFields(r) ==
    [r EXCEPT !.performanceMetrics = InitialResults.performanceMetrics]

IsNumber(x) == DOMAIN x = {"num", "den"} /\ x.den > 0

Complete(r) ==
    /\ DOMAIN r = DOMAIN InitialResults
    /\ DOMAIN r.makerTakerProportion = {"maker", "taker"}
    /\ DOMAIN r.performanceMetrics =
           {"processingLatency", "uiUpdateLatency", "endToEndLatency"}
    /\ IsNumber(r.slippage)
    /\ IsNumber(r.fees)
    /\ IsNumber(r.marketImpact)
    /\ \A k \in DOMAIN r.makerTakerProportion :
         IsNumber(r.makerTakerProportion[k])
    /\ \A k \in DOMAIN r.performanceMetrics :
         IsNumber(r.performanceMetrics[k])

\* C18: for every valid parameter set a run that has started ends, and the
\* step that ends it stores a complete result computed by the cost formulas
\* from the run's parameters: never a result with a field missing, never
\* the hard-coded fallback values, and the state it leaves holds the cost
\* fields of those parameters, not those of an earlier result.
C18_RunStoresComputed ==
    /\ [][Settles =>
             /\ Complete(simulationResults')
             /\ simulationResults' # FallbackResults
             /\ CostFields(simulationResults') =
                    CostFields(ComputeResults(simParams, Zero, Zero, 0))]_vars
    /\ (simPc = "health" /\ simParams = FormParameters)
           ~> (/\ simPc = "idle"
               /\ ~isLoading
               /\ CostFields(simulationResults) =
                      CostFields(ComputeResults(FormParameters, Zero, Zero, 0)))

\* 1 unit at volatility 100 and the basic tier, run to its end.
C18_Witness ==
    /\ simPc = "idle"
    /\ ~isLoading
    /\ orderSize = <<"1">>
    /\ volatility = 100
    /\ feeTier = "basic"
    /\ simulationResults =
           [slippage |-> [num |-> 1, den |-> 100],
            fees |-> [num |-> 1, den |-> 1000],
            marketImpact |-> [num |-> 1, den |-> 50],
            makerTakerProportion |->
                [maker |-> [num |-> 1, den |-> 10],
                 taker |-> [num |-> 9, den |-> 10]],
            performanceMetrics |->
                [processingLatency |-> FromInt(5),
                 uiUpdateLatency |-> FromInt(3),
                 endToEndLatency |-> One]]

\* The panel's effect runs: one invocation of the aggregation.
Aggregates == effectPc = "pending" /\ effectPc' = "done"

\* C19: the aggregation and the estimate need no coordination.  Under every
\* interleaving of the panel's effect with the steps of a simulation run
\* and with arriving snapshots, the effect stores the aggregation of its
\* own data and maxDepth and leaves the simulation's state alone, and the
\* run stores the cost fields of its own parameters and leaves the panel's
\* state alone: each yields what it yields when it runs alone.
C19_NoCoordination ==
    [][/\ Aggregates =>
            /\ \E now \in Clock :
                 processedData' = Aggregate(data, maxDepth, now)
            /\ UNCHANGED <<formVars, simVars>>
       /\ Settles =>
            /\ CostFields(simulationResults') =
                   CostFields(ComputeResults(simParams, Zero, Zero, 0))
            /\ UNCHANGED <<formVars, bookVars>>]_vars

\* The effect has aggregated a received snapshot while a run, the second
\* at least, is waiting for its health check.
C19_Witness ==
    /\ simPc = "health"
    /\ isLoading
    /\ simulationResults # InitialResults
    /\ effectPc = "done"
    /\ Len(data.bids) = 2
    /\ Len(processedData.bids) = 2
    /\ processedData.bids[2].total = 2
    /\ processedData.asks[1].percentage = [num |-> 50, den |-> 1]

(***************************************************************************)
(* The aggregation's frame.                                                *)
(***************************************************************************)
\* out has, position by position, the price and size of the first maxDepth
\* levels of side.
KeepsOrder(out, side) ==
    /\ Len(out) = Min(maxDepth, Len(side))
    /\ \A i \in 1..Len(out) :
         /\ out[i].price = RawPrice(side[i])
         /\ out[i].size = RawSize(side[i])

\* C20: the aggregation keeps the received order: entry i of each output
\* side has the price and size of entry i of that input side, for the first
\* maxDepth entries, none re-sorted, dropped or moved; and the step leaves
\* the input snapshot, its arrays and its levels, as it was.
C20_OrderKeptInputUntouched ==
    [][Aggregates =>
          /\ KeepsOrder(processedData'.bids, data.bids)
          /\ KeepsOrder(processedData'.asks, data.asks)
          /\ data' = data]_vars

\* Two bids received with the lower price first stay in that order.
C20_Witness ==
    /\ Done
    /\ maxDepth = 2
    /\ data.bids = << [price |-> 0, size |-> 2], [price |-> 1, size |-> 1] >>
    /\ Len(processedData.bids) = 2
    /\ processedData.bids[1].price = 0
    /\ processedData.bids[1].size = 2
    /\ processedData.bids[2].price = 1
    /\ processedData.bids[2].size = 1

(***************************************************************************)
(* JSON texts.  A text is a sequence of lexemes: the punctuation marks,    *)
(* the literals null, true and false, decimal digits, a minus sign, the    *)
(* quotation mark, and the runs of characters between two quotation marks. *)
(* Whitespace, fractions, exponents and escapes do not occur.              *)
(***************************************************************************)
Quote == "\""

Undefined == [kind |-> "undefined"]

JsonNull == [kind |-> "null"]

JsonBoolean(b) == [kind |-> "boolean", value |-> b]

JsonNumber(n) == [kind |-> "number", value |-> n]

JsonString(chars) == [kind |-> "string", value |-> chars]

JsonArray(items) == [kind |-> "array", items |-> items]

JsonObject(members) == [kind |-> "object", members |-> members]

ParseFail == [ok |-> FALSE]

Parsed(v, next) == [ok |-> TRUE, value |-> v, next |-> next]

\* Position of the first quotation mark of s at or after i, 0 if none.
RECURSIVE ClosingQuote(_, _)
ClosingQuote(s, i) ==
    IF i > Len(s) THEN 0
    ELSE IF s[i] = Quote THEN i
    ELSE ClosingQuote(s, i + 1)

\* A string whose opening quotation mark is s[i].
ParseString(s, i) ==
    LET close == ClosingQuote(s, i + 1)
    IN  IF close = 0 THEN ParseFail
        ELSE Parsed(JsonString(SubSeq(s, i + 1, close - 1)), close + 1)

\* A number starting at s[i]: an optional minus sign and digits, without a
\* leading zero.
ParseNumber(s, i) ==
    LET signLen == IF s[i] = "-" THEN 1 ELSE 0
        n       == DigitRun(s, i + signLen)
        v       == DigitsValue(s, i + signLen, n)
    IN  IF n = 0 \/ (n > 1 /\ s[i + signLen] = "0") THEN ParseFail
        ELSE Parsed(JsonNumber(IF signLen = 1 THEN 0 - v ELSE v),
                    i + signLen + n)

\* members with name bound to v; a repeated name keeps its last value.
WithMember(members, name, v) ==
    [k \in DOMAIN members \cup {name} |-> IF k = name THEN v ELSE members[k]]

RECURSIVE ParseValue(_, _)
RECURSIVE ParseElements(_, _, _)
RECURSIVE ParseMembers(_, _, _)
\* The value starting at s[i].
ParseValue(s, i) ==
    IF i > Len(s) THEN ParseFail
    ELSE IF s[i] = "null" THEN Parsed(JsonNull, i + 1)
    ELSE IF s[i] = "true" THEN Parsed(JsonBoolean(TRUE), i + 1)
    ELSE IF s[i] = "false" THEN Parsed(JsonBoolean(FALSE), i + 1)
    ELSE IF s[i] = "-" \/ s[i] \in Digits THEN ParseNumber(s, i)
    ELSE IF s[i] = Quote THEN ParseString(s, i)
    ELSE IF s[i] = "["
      THEN IF i + 1 <= Len(s) /\ s[i + 1] = "]"
             THEN Parsed(JsonArray(<< >>), i + 2)
             ELSE ParseElements(s, i + 1, << >>)
    ELSE IF s[i] = "{"
      THEN IF i + 1 <= Len(s) /\ s[i + 1] = "}"
             THEN Parsed(JsonObject(<< >>), i + 2)
             ELSE ParseMembers(s, i + 1, << >>)
    ELSE ParseFail

\* The rest of an array: a value at s[i], then a comma or the bracket.
ParseElements(s, i, items) ==
    LET v == ParseValue(s, i)
    IN  IF ~v.ok \/ v.next > Len(s) THEN ParseFail
        ELSE IF s[v.next] = ","
          THEN ParseElements(s, v.next + 1, Append(items, v.value))
        ELSE IF s[v.next] = "]"
          THEN Parsed(JsonArray(Append(items, v.value)), v.next + 1)
        ELSE ParseFail

\* The rest of an object: a name at s[i], a colon, a value, then a comma or
\* the brace.
ParseMembers(s, i, members) ==
    IF i > Len(s) \/ s[i] # Quote THEN ParseFail
    ELSE LET name == ParseString(s, i)
         IN  IF ~name.ok \/ name.next > Len(s) \/ s[name.next] # ":"
               THEN ParseFail
             ELSE LET v == ParseValue(s, name.next + 1)
                      bound == WithMember(members, name.value.value, v.value)
                  IN  IF ~v.ok \/ v.next > Len(s) THEN ParseFail
                      ELSE IF s[v.next] = ","
                        THEN ParseMembers(s, v.next + 1, bound)
                      ELSE IF s[v.next] = "}"
                        THEN Parsed(JsonObject(bound), v.next + 1)
                      ELSE ParseFail

\* JSON.parse(text): the value of the whole text, or a SyntaxError.
JSONparse(text) ==
    LET r == ParseValue(text, 1)
    IN  IF r.ok /\ r.next = Len(text) + 1
          THEN [threw |-> FALSE, value |-> r.value]
          ELSE [threw |-> TRUE, error |-> "SyntaxError"]

(***************************************************************************)
(* The WebSocket of the dashboard and its four handlers.  The socket       *)
(* dispatches its events in any order; wsEvents records them.              *)
(***************************************************************************)
MaxEvents == 3     \* events dispatched by the socket

\* data.name of a parsed value other than null: undefined unless the value
\* is an object with that member.  Member names are single lexemes.
Property(v, name) ==
    IF v.kind = "object" /\ <<name>> \in DOMAIN v.members
      THEN v.members[<<name>>] ELSE Undefined

\* Whether a || b evaluates to a.
Truthy(v) ==
    /\ v.kind \notin {"undefined", "null"}
    /\ v.kind = "boolean" => v.value
    /\ v.kind = "number" => v.value # 0
    /\ v.kind = "string" => v.value # << >>

\* a || b
Or(a, b) == IF Truthy(a) THEN a ELSE b

\* A parsed value as the value the components work with: null is Null, an
\* array a sequence, an object a record of its members.
RECURSIVE ToValue(_)
ToValue(v) ==
    CASE v.kind = "null" -> Null
      [] v.kind \in {"boolean", "number", "string"} -> v.value
      [] v.kind = "array" -> [i \in 1..Len(v.items) |-> ToValue(v.items[i])]
      [] v.kind = "object" ->
            [name \in {k[1] : k \in DOMAIN v.members} |->
                ToValue(v.members[<<name>>])]

\* Lexemes of "name"
Quoted(name) == <<Quote, name, Quote>>

\* Lexemes of "name":
Named(name) == Quoted(name) \o <<":">>

\* Lexemes of {"price":p,"size":s}
LevelText(p, s) ==
    <<"{">> \o Named("price") \o <<p, ",">> \o Named("size") \o <<s, "}">>

\* Texts the feed sends (event.data): snapshots with and without their
\* fields, with sparse levels, texts that are not JSON, and JSON texts that
\* are not objects.
MessageTexts ==
    { \* {"bids":[{"price":1,"size":1},{"price":2,"size":1}],
      \*  "asks":[{"price":3,"size":1}],"timestamp":1}
      <<"{">> \o Named("bids") \o <<"[">> \o LevelText("1", "1") \o <<",">>
          \o LevelText("2", "1") \o <<"]", ",">> \o Named("asks") \o <<"[">>
          \o LevelText("3", "1") \o <<"]", ",">> \o Named("timestamp")
          \o <<"1", "}">>,
      \* {"asks":[{"price":3,"size":2}],"timestamp":2}
      <<"{">> \o Named("asks") \o <<"[">> \o LevelText("3", "2")
          \o <<"]", ",">> \o Named("timestamp") \o <<"2", "}">>,
      \* {"bids":[{"price":1,"size":2}]}
      <<"{">> \o Named("bids") \o <<"[">> \o LevelText("1", "2")
          \o <<"]", "}">>,
      \* {"bids":null,"asks":[null,{"size":1}],"timestamp":0}
      <<"{">> \o Named("bids") \o <<"null", ",">> \o Named("asks")
          \o <<"[", "null", ",", "{">> \o Named("size") \o <<"1", "}", "]">>
          \o <<",">> \o Named("timestamp") \o <<"0", "}">>,
      \* {}
      <<"{", "}">>,
      \* the empty text
      << >>,
      \* {"bids":[
      <<"{">> \o Named("bids") \o <<"[">>,
      \* null
      <<"null">>,
      \* 1
      <<"1">>,
      \* "ping"
      Quoted("ping"),
      \* []
      <<"[", "]">> }

EmptyArray == JsonArray(<< >>)

\* ws.onmessage.  Reading data.bids of null is a TypeError, caught like the
\* SyntaxError of JSON.parse.  setOrderbookData gives the orderbook panel a
\* new data prop, so its effect is due again.
OnMessage ==
    /\ Len(wsEvents) < MaxEvents
    /\ \E text \in MessageTexts, now \in Clock :
         LET parsed == JSONparse(text)
         IN  /\ wsMessage' = [data |-> text]
             /\ IF parsed.threw \/ parsed.value.kind = "null"
                  THEN UNCHANGED <<data, effectPc>>
                  ELSE /\ data' =
                            [bids |->
                                 ToValue(Or(Property(parsed.value, "bids"),
                                            EmptyArray)),
                             asks |->
                                 ToValue(Or(Property(parsed.value, "asks"),
                                            EmptyArray)),
                             timestamp |->
                                 ToValue(Or(Property(parsed.value,
                                                     "timestamp"),
                                            JsonNumber(now)))]
                       /\ effectPc' = "pending"
    /\ wsEvents' = Append(wsEvents, "message")
    /\ UNCHANGED <<isConnected, maxDepth, processedData, formVars, simVars,
                   apiVars>>

\* ws.onopen
OnOpen ==
    /\ Len(wsEvents) < MaxEvents
    /\ isConnected' = TRUE
    /\ wsEvents' = Append(wsEvents, "open")
    /\ UNCHANGED <<wsMessage, bookVars, formVars, simVars, apiVars>>

\* ws.onerror that only logs the error.
OnErrorOnlyLogs ==
    /\ Len(wsEvents) < MaxEvents
    /\ wsEvents' = Append(wsEvents, "error")
    /\ UNCHANGED <<isConnected, wsMessage, bookVars, formVars, simVars,
                   apiVars>>

\* ws.onerror
OnError ==
    /\ Len(wsEvents) < MaxEvents
    /\ isConnected' = FALSE
    /\ wsEvents' = Append(wsEvents, "error")
    /\ UNCHANGED <<wsMessage, bookVars, formVars, simVars, apiVars>>

\* ws.onclose
OnClose ==
    /\ Len(wsEvents) < MaxEvents
    /\ isConnected' = FALSE
    /\ wsEvents' = Append(wsEvents, "close")
    /\ UNCHANGED <<wsMessage, bookVars, formVars, simVars, apiVars>>

\* The dashboard mounted: no snapshot received, the socket just created.
InitSocket ==
    /\ data = [bids |-> << >>, asks |-> << >>, timestamp |-> 0]
    /\ maxDepth = DefaultMaxDepth
    /\ \E now \in Clock :
         processedData = [bids |-> data.bids, asks |-> data.asks,
                          timestamp |-> TimestampOr(data.timestamp, now)]
    /\ effectPc = "pending"
    /\ FormMounted
    /\ DashboardMounted
    /\ ApiLoaded

NextSocket == OnOpen \/ OnMessage \/ OnError \/ OnClose

SpecSocket == InitSocket /\ [][NextSocket]_vars

(***************************************************************************)
(* The orderbook panel fed by the socket: snapshots arrive, the parent     *)
(* renders the panel with other values of maxDepth, and the aggregation    *)
(* effect runs whenever one of its dependencies [data, maxDepth] changed.  *)
(***************************************************************************)
\* A change of maxDepth that leaves the aggregated book as it is.
MaxDepthChangedNoRerun ==
    /\ \E depth \in (Depths \cup {DefaultMaxDepth}) \ {maxDepth} :
         maxDepth' = depth
    /\ UNCHANGED <<data, processedData, effectPc, formVars, simVars,
                   socketVars, apiVars>>

\* The panel rendered with another maxDepth: the effect is due again.
MaxDepthChanged ==
    /\ \E depth \in (Depths \cup {DefaultMaxDepth}) \ {maxDepth} :
         maxDepth' = depth
    /\ effectPc' = "pending"
    /\ UNCHANGED <<data, processedData, formVars, simVars, socketVars,
                   apiVars>>

NextFeed == OnMessage \/ MaxDepthChanged \/ ProcessEffect

SpecFeed == InitSocket /\ [][NextFeed]_vars

(***************************************************************************)
(* Properties of the fed panel.                                            *)
(***************************************************************************)
\* out is the aggregation of side alone: entry i has the price and size of
\* level i of side, the sum of the sizes of levels 1..i, and that sum as a
\* percentage of the larger window sum of the current snapshot.
FreshFrom(out, side) ==
    /\ KeepsOrder(out, side)
    /\ TruncatedThenSummed(out, side)

\* C21: after any sequence of snapshot updates and maxDepth changes, once
\* the aggregation effect has run for the latest of them the aggregated
\* book is the one derived from the current snapshot and the current
\* maxDepth alone: prices, sizes, totals, percentages, lengths and the
\* timestamp owe nothing to an earlier snapshot or depth.
C21_LatestSnapshotOnly ==
    Done => /\ FreshFrom(processedData.bids, data.bids)
            /\ FreshFrom(processedData.asks, data.asks)
            /\ DOMAIN processedData = {"bids", "asks", "timestamp"}
            /\ IF data.timestamp # 0
                 THEN processedData.timestamp = data.timestamp
                 ELSE processedData.timestamp \in Clock

\* The third event was a snapshot without asks, shown at depth 1 after the
\* depth was changed: the asks of the earlier snapshots are gone.
C21_Witness ==
    /\ Done
    /\ Len(wsEvents) = 3
    /\ maxDepth = 1
    /\ data.bids = << [price |-> 1, size |-> 2] >>
    /\ data.asks = << >>
    /\ processedData.asks = << >>
    /\ Len(processedData.bids) = 1
    /\ processedData.bids[1].total = 2
    /\ processedData.bids[1].percentage = Hundred

(***************************************************************************)
(* handleSimulation called with any argument.  The form passes an object   *)
(* built by handleSubmit; Null stands for a call whose argument has no     *)
(* readable properties, the one case in which the try block throws.  The   *)
(* caller is the submit control, which is disabled while isLoading.        *)
(***************************************************************************)
RunParameters ==
    {SubmittedParameters(text, v, tier) :
        text \in CostOrderSizes, v \in {0, 100}, tier \in FeeTiers}
        \cup {Null}

\* handleSimulation up to its await of the health check.
HandleSimulation ==
    /\ ~isLoading
    /\ \E parameters \in RunParameters : simParams' = parameters
    /\ isLoading' = TRUE
    /\ simPc' = "health"
    /\ UNCHANGED <<simulationResults, isApiAvailable, formVars, bookVars,
                   socketVars, apiVars>>

NextRun == HandleSimulation \/ HealthCheckSettled

SpecRun == InitForm /\ [][NextRun]_vars

\* The health check is a fetch with AbortSignal.timeout(1000): it settles
\* and the event loop resumes the call (see SpecCostFair).
SpecRunFair == SpecRun /\ WF_simPc(Settles)

(***************************************************************************)
(* Properties of the loading flag.                                         *)
(***************************************************************************)
\* C22: the loading flag brackets every run: the step that starts
\* handleSimulation sets isLoading, it stays set while the call is in
\* flight, the step that ends the call clears it whatever the outcome of the
\* health check and whether the computation returned or threw, and a set
\* flag is always cleared eventually, so the submit control is enabled
\* again.
C22_LoadingBrackets ==
    /\ [][/\ SimulationStarts => isLoading'
          /\ Settles => ~isLoading']_vars
    /\ [](isLoading <=> simPc = "health")
    /\ (isLoading ~> ~isLoading)

\* A run whose computation threw has ended: the fallback values are stored,
\* the health check had failed, and the flag is clear.
C22_Witness ==
    /\ simPc = "idle"
    /\ ~isLoading
    /\ ~isApiAvailable
    /\ simulationResults = FallbackResults

(***************************************************************************)
(* Properties of the socket handlers.                                      *)
(***************************************************************************)
\* The most recent open, error or close event of a sequence of events,
\* "none" when it has none.
RECURSIVE LastLifecycle(_)
LastLifecycle(events) ==
    IF events = << >> THEN "none"
    ELSE IF events[Len(events)] # "message" THEN events[Len(events)]
    ELSE LastLifecycle(SubSeq(events, 1, Len(events) - 1))

\* C23: after any sequence of WebSocket events isConnected is true exactly
\* when the most recent of the open, error and close events was an open
\* event: it is false before any of them, and message events, which are
\* skipped in finding the most recent one, do not change it.
C23_ConnectedIffLastOpen ==
    isConnected <=> LastLifecycle(wsEvents) = "open"

\* An error, then an open, then a message: connected.
C23_Witness ==
    /\ wsEvents = <<"error", "open", "message">>
    /\ isConnected

\* The step in which the socket dispatches a message event.
MessageArrives == wsEvents' = Append(wsEvents, "message")

\* What JSON.parse makes of the message that arrives.
Received == JSONparse(wsMessage'.data)

IsJsonObject(r) == ~r.threw /\ r.value.kind = "object"

\* side is what the member called name of the received object gives: the
\* empty side when the object has no such member or it is null, the
\* member's array otherwise.
SideFrom(side, name) ==
    IF /\ <<name>> \in DOMAIN Received.value.members
       /\ Received.value.members[<<name>>].kind # "null"
      THEN side = ToValue(Received.value.members[<<name>>])
      ELSE side = << >>

\* C24: a message whose text does not parse as a JSON object leaves the
\* stored snapshot as it was; a message that does parse as one replaces the
\* snapshot by a snapshot made of the message alone, in which a missing
\* bids or asks member is an empty side.
C24_RejectedOrReplaced ==
    [][MessageArrives =>
          IF ~IsJsonObject(Received)
            THEN data' = data
            ELSE /\ DOMAIN data' = {"bids", "asks", "timestamp"}
                 /\ SideFrom(data'.bids, "bids")
                 /\ SideFrom(data'.asks, "asks")]_vars

(***************************************************************************)
(* The API client (lib/api.ts).  One call is followed at a time, through   *)
(* its awaits; what the server answers is not constrained.                 *)
(***************************************************************************)
\* The promise of fetch rejected: no response was received.
Rejected == [rejected |-> TRUE]

\* Response.ok
IsOk(status) == status >= 200 /\ status <= 299

\* Lexemes of {"slippage":1,"fees":2,"marketImpact":3,"netCost":6}
ResultText ==
    <<"{">> \o Named("slippage") \o <<"1", ",">> \o Named("fees")
        \o <<"2", ",">> \o Named("marketImpact") \o <<"3", ",">>
        \o Named("netCost") \o <<"6", "}">>

\* Bodies the server sends: a result, an object with one field only, an
\* error description, a page that is not JSON, and nothing.
BodyTexts ==
    { ResultText,
      <<"{">> \o Named("slippage") \o <<"1", "}">>,
      <<"{">> \o Named("detail") \o Quoted("failed") \o <<"}">>,
      <<"<html>">>,
      << >> }

StatusLines ==
    { [status |-> 200, statusText |-> "OK"],
      [status |-> 422, statusText |-> "Unprocessable Entity"],
      [status |-> 500, statusText |-> "Internal Server Error"] }

\* What the promise of fetch resolves to.
Responses ==
    { [ok |-> IsOk(line.status), status |-> line.status,
       statusText |-> line.statusText, body |-> body] :
          line \in StatusLines, body \in BodyTexts }

\* Whether a call can begin: none is being followed.
NoCallInFlight == apiCall.pc \in {"idle", "returned", "threw"}

\* simulateTrade(orderbookData, parameters) up to its await of fetch
SimulateTradeCalled ==
    /\ NoCallInFlight
    /\ \E snapshot \in FeedSnapshots, parameters \in RunParameters \ {Null} :
         apiCall' = [fn |-> "simulateTrade", pc |-> "fetch",
                     orderbookData |-> snapshot, parameters |-> parameters]
    /\ UNCHANGED <<bookVars, formVars, simVars, socketVars>>

\* The simulateTrade call in flight at the position pc, holding response.
Awaiting(pc, response) ==
    [fn |-> apiCall.fn, pc |-> pc, orderbookData |-> apiCall.orderbookData,
     parameters |-> apiCall.parameters, response |-> response]

\* The simulateTrade call ended by the catch block rethrowing thrown.
Threw(response, thrown) ==
    [fn |-> apiCall.fn, pc |-> "threw",
     orderbookData |-> apiCall.orderbookData,
     parameters |-> apiCall.parameters, response |-> response,
     error |-> thrown]

\* The simulateTrade call ended by return data.
Returned(response, value) ==
    [fn |-> apiCall.fn, pc |-> "returned",
     orderbookData |-> apiCall.orderbookData,
     parameters |-> apiCall.parameters, response |-> response,
     value |-> value]

\* simulateTrade that reads the body of every response as the result.
SimulateTradeFetchedNoOkCheck ==
    /\ apiCall.fn = "simulateTrade"
    /\ apiCall.pc = "fetch"
    /\ \E response \in Responses \cup {Rejected} :
         apiCall' =
             IF response = Rejected
               THEN Threw(response, [name |-> "TypeError"])
               ELSE Awaiting("json", response)
    /\ UNCHANGED <<bookVars, formVars, simVars, socketVars>>

\* simulateTrade resumed after fetch: a rejection is logged and rethrown by
\* the catch block; a response that is not ok has its text read; an ok
\* response has its JSON read.
SimulateTradeFetched ==
    /\ apiCall.fn = "simulateTrade"
    /\ apiCall.pc = "fetch"
    /\ \E response \in Responses \cup {Rejected} :
         apiCall' =
             IF response = Rejected
               THEN Threw(response, [name |-> "TypeError"])
             ELSE IF ~response.ok THEN Awaiting("text", response)
             ELSE Awaiting("json", response)
    /\ UNCHANGED <<bookVars, formVars, simVars, socketVars>>

\* simulateTrade resumed after response.text(): it throws the API error, or
\* the error of a body that could not be read; the catch block rethrows.
ErrorTextRead ==
    /\ apiCall.pc = "text"
    /\ \E readable \in BOOLEAN :
         apiCall' =
             Threw(apiCall.response,
                   IF readable
                     THEN [name |-> "Error",
                           message |-> <<"API error:",
                                         apiCall.response.status,
                                         apiCall.response.statusText>>]
                     ELSE [name |-> "TypeError"])
    /\ UNCHANGED <<bookVars, formVars, simVars, socketVars>>

\* simulateTrade resumed after response.json(): the parsed body is
\* returned; a body that cannot be read or parsed rejects, and the catch
\* block rethrows.
JsonRead ==
    /\ apiCall.pc = "json"
    /\ \E readable \in BOOLEAN :
         LET parsed == JSONparse(apiCall.response.body)
         IN  apiCall' =
                 IF ~readable
                   THEN Threw(apiCall.response, [name |-> "TypeError"])
                 ELSE IF parsed.threw
                   THEN Threw(apiCall.response, [name |-> "SyntaxError"])
                 ELSE Returned(apiCall.response, ToValue(parsed.value))
    /\ UNCHANGED <<bookVars, formVars, simVars, socketVars>>

\* checkApiHealth() up to its await of fetch
CheckApiHealthCalled ==
    /\ NoCallInFlight
    /\ apiCall' = [fn |-> "checkApiHealth", pc |-> "fetch"]
    /\ UNCHANGED <<bookVars, formVars, simVars, socketVars>>

\* checkApiHealth resumed after fetch: response.ok, or false from the catch
\* block.
CheckApiHealthFetched ==
    /\ apiCall.fn = "checkApiHealth"
    /\ apiCall.pc = "fetch"
    /\ \E response \in Responses \cup {Rejected} :
         apiCall' =
             [fn |-> apiCall.fn, pc |-> "returned", response |-> response,
              value |-> IF response = Rejected THEN FALSE ELSE response.ok]
    /\ UNCHANGED <<bookVars, formVars, simVars, socketVars>>

NextApi ==
    \/ SimulateTradeCalled
    \/ SimulateTradeFetched
    \/ ErrorTextRead
    \/ JsonRead
    \/ CheckApiHealthCalled
    \/ CheckApiHealthFetched

SpecApi == InitForm /\ [][NextApi]_vars

(***************************************************************************)
(* Properties of the API client.                                           *)
(***************************************************************************)
Ended == apiCall.pc \in {"returned", "threw"}

RequestFailed == apiCall.response = Rejected

\* C25: checkApiHealth never throws; it returns false when the request
\* failed and the ok flag of the response otherwise.  simulateTrade throws
\* when the request failed or the response was not ok; when it returns, the
\* response was ok and the value returned is the JSON value of the
\* response body as a whole, with nothing added or left out.
C25_FailureReporting ==
    /\ apiCall.fn = "checkApiHealth" =>
         /\ apiCall.pc # "threw"
         /\ Ended =>
              apiCall.value =
                  IF RequestFailed THEN FALSE
                  ELSE IsOk(apiCall.response.status)
    /\ (apiCall.fn = "simulateTrade" /\ Ended) =>
         /\ (RequestFailed \/ ~IsOk(apiCall.response.status)) =>
              apiCall.pc = "threw"
         /\ apiCall.pc = "returned" =>
              /\ ~RequestFailed
              /\ IsOk(apiCall.response.status)
              /\ ~JSONparse(apiCall.response.body).threw
              /\ apiCall.value =
                     ToValue(JSONparse(apiCall.response.body).value)

\* simulateTrade has thrown on a 500 response although its body is a
\* result that parses.
C25_Witness ==
    /\ apiCall.fn = "simulateTrade"
    /\ apiCall.pc = "threw"
    /\ ~RequestFailed
    /\ apiCall.response.status = 500
    /\ apiCall.response.body = ResultText
    /\ apiCall.error.name = "Error"

====
